---- MODULE Spec2Model ----
(***************************************************************************)
(* Municipal_Wallet: the approval state machine and the transaction        *)
(* execution engine (apps/transactions, apps/approvals, apps/cities,       *)
(* apps/admin_panel).  Every request handler is one atomic action on the   *)
(* persisted rows: accounts.balance, transactions, request_approvals,      *)
(* approver assignments and approval configurations.                       *)
(***************************************************************************)
EXTENDS Integers, FiniteSets, Sequences, TLC

\* ---------------------------------------------------------------- bounds
MaxTxn == 2            \* transactions that can be created
NumApprovers == 2      \* active users holding an APPROVER_i role (user i)
MaxAmount == 1         \* amounts are 1..MaxAmount (units of 0.01)
MaxInitBalance == 1    \* the account starts with 0..MaxInitBalance
MaxAdminOps == 1       \* admin-panel requests in one behaviour
MaxRecomputes == 1     \* direct check_transaction_status calls in one behaviour
NumProcs == 2          \* requests served concurrently
MaxRefNum == 3         \* highest reference number generated

\* ------------------------------------------------------ program constants
DefaultDepositApprovals == 3
DefaultWithdrawalApprovals == 5
MinRequiredApprovals == 1
MaxRequiredApprovals == 5
NumRoles == 5          \* the roles APPROVER_1 .. APPROVER_5

NoConfig == -1         \* no ApprovalConfiguration row for the type

Txns == 1..MaxTxn
Approvers == 1..NumApprovers
Types == {"DEPOSIT", "WITHDRAWAL"}
TxnStatus == {"PENDING", "APPROVED", "REJECTED", "EXECUTED", "CANCELLED"}
ApprovalStatus == {"PENDING", "APPROVED", "REJECTED"}
Actions == {"approve", "reject"}
ReasonInputs == {"<absent>", ""}

VARIABLES
  balance,      \* Account.balance of the General Fund account
  txn,          \* transactions table: id -> row ("ABSENT" status: no row)
  approvals,    \* request_approvals: txn id -> approver -> status or "NONE"
  config,       \* ApprovalConfiguration.required_approvals per type, or NoConfig
  assignment,   \* ApproverAssignment per (type, approver): none/active/inactive
  applied,      \* history: how often txn's amount was applied to the balance
  adminOps,     \* number of admin-panel requests served
  recomputes,   \* direct check_transaction_status calls made on each txn
  stable,       \* history: txn's required count is the one it was created under
  users,        \* active users holding an APPROVER_i role (user i holds role i)
  roster,       \* the answer of the last create_request_approvals call
  proc,         \* in-flight requests: their position and in-memory copies
  audit,        \* how the last request's AuditLog.log_action call ended
  call,         \* the last Account method call: arguments and return value
  reference,    \* Transaction.reference: txn id -> prefix and digits
  created_by    \* Transaction.created_by: txn id -> user, or NoUser

vars == <<balance, txn, approvals, config, assignment, applied, adminOps,
          recomputes, stable, users, roster, proc, audit, call, reference,
          created_by>>

\* what the sequential request handlers leave alone
aux == <<users, proc, call, reference, created_by>>

\* no Account method has been called directly
NoCall == [op |-> "none", amount |-> 0, before |-> 0, returned |-> TRUE]

AbsentTxn == [type |-> "DEPOSIT", amount |-> 0, status |-> "ABSENT",
              executed_at |-> "NULL", cancellation_reason |-> "NULL"]

\* ----------------------------------------------------------- Account
\* a can_withdraw that lets every amount through
can_withdraw_Always(bal, amount) == TRUE

\* a can_withdraw that refuses to empty the account
can_withdraw_Strict(bal, amount) == bal > amount

can_withdraw(bal, amount) == bal >= amount

deposit(bal, amount) == bal + amount

\* a withdraw that debits without asking can_withdraw
withdraw_Unchecked(bal, amount) ==
  [ok |-> TRUE, balance |-> bal - amount]

withdraw(bal, amount) ==
  IF can_withdraw(bal, amount)
    THEN [ok |-> TRUE, balance |-> bal - amount]
    ELSE [ok |-> FALSE, balance |-> bal]

\* ----------------------------------------------------------- Transaction
\* a can_be_cancelled that also lets an APPROVED transaction be cancelled
can_be_cancelled_OrApproved(tx) == tx.status \in {"PENDING", "APPROVED"}

can_be_cancelled(tx) == tx.status = "PENDING"

\* a can_be_executed that also lets a PENDING transaction execute
can_be_executed_OrPending(tx) == tx.status \in {"APPROVED", "PENDING"}

can_be_executed(tx) == tx.status = "APPROVED"

\* an execute that never credits: deposits are left as they are
execute_DebitsOnly(tx, bal) ==
  IF ~can_be_executed(tx) \/ tx.type = "DEPOSIT"
    THEN [ok |-> FALSE, tx |-> tx, balance |-> bal]
    ELSE LET w == withdraw(bal, tx.amount) IN
         IF ~w.ok
           THEN [ok |-> FALSE, tx |-> tx, balance |-> bal]
           ELSE [ok |-> TRUE,
                 tx |-> [tx EXCEPT !.status = "EXECUTED", !.executed_at = "SET"],
                 balance |-> w.balance]

\* execute on the in-memory row tx against the account balance bal
execute(tx, bal) ==
  IF ~can_be_executed(tx)
    THEN [ok |-> FALSE, tx |-> tx, balance |-> bal]
    ELSE IF tx.type = "DEPOSIT"
      THEN [ok |-> TRUE,
            tx |-> [tx EXCEPT !.status = "EXECUTED", !.executed_at = "SET"],
            balance |-> deposit(bal, tx.amount)]
      ELSE LET w == withdraw(bal, tx.amount) IN
           IF ~w.ok
             THEN [ok |-> FALSE, tx |-> tx, balance |-> bal]
             ELSE [ok |-> TRUE,
                   tx |-> [tx EXCEPT !.status = "EXECUTED", !.executed_at = "SET"],
                   balance |-> w.balance]

cancel(tx, reason) ==
  IF ~can_be_cancelled(tx)
    THEN [ok |-> FALSE, tx |-> tx]
    ELSE [ok |-> TRUE,
          tx |-> [tx EXCEPT !.status = "CANCELLED",
                            !.cancellation_reason =
                               IF reason # "" THEN reason ELSE @]]

\* ----------------------------------------------------------- configuration
\* a resolver whose defaults are swapped between the two types
get_required_approvals_SwappedDefaults(cfg, type) ==
  IF cfg[type] = NoConfig
    THEN (IF type = "DEPOSIT" THEN DefaultWithdrawalApprovals
                              ELSE DefaultDepositApprovals)
    ELSE cfg[type]

get_required_approvals(cfg, type) ==
  IF cfg[type] = NoConfig
    THEN (IF type = "DEPOSIT" THEN DefaultDepositApprovals
                              ELSE DefaultWithdrawalApprovals)
    ELSE cfg[type]

active_count(asg, type) == Cardinality({u \in Approvers : asg[type][u] = "active"})

\* ----------------------------------------------------------- progress
CountIn(recs, st) == Cardinality({a \in DOMAIN recs : recs[a] = st})

\* a progress whose is_complete needs more approvals than required
get_approval_progress_StrictlyMore(recs, cfg, type) ==
  LET required == get_required_approvals(cfg, type)
      approved == CountIn(recs, "APPROVED")
      rejected == CountIn(recs, "REJECTED")
      pending  == CountIn(recs, "PENDING")
  IN [approved |-> approved, rejected |-> rejected, pending |-> pending,
      required |-> required,
      total |-> Cardinality({a \in DOMAIN recs : recs[a] # "NONE"}),
      is_complete |-> approved > required,
      is_rejected |-> rejected > 0]

get_approval_progress(recs, cfg, type) ==
  LET required == get_required_approvals(cfg, type)
      approved == CountIn(recs, "APPROVED")
      rejected == CountIn(recs, "REJECTED")
      pending  == CountIn(recs, "PENDING")
  IN [approved |-> approved, rejected |-> rejected, pending |-> pending,
      required |-> required,
      total |-> Cardinality({a \in DOMAIN recs : recs[a] # "NONE"}),
      is_complete |-> approved >= required,
      is_rejected |-> rejected > 0]

\* a recomputation that looks at is_complete before is_rejected
check_transaction_status_CompleteFirst(tx, recs, cfg, bal) ==
  LET progress == get_approval_progress(recs, cfg, tx.type) IN
  IF progress.is_complete
    THEN LET approved == [tx EXCEPT !.status = "APPROVED"]
             r == execute(approved, bal)
         IN IF can_be_executed(approved) /\ r.ok
              THEN [tx |-> [r.tx EXCEPT !.status = "EXECUTED"],
                    balance |-> r.balance, executed |-> TRUE]
              ELSE [tx |-> approved, balance |-> bal, executed |-> FALSE]
    ELSE IF progress.is_rejected
      THEN [tx |-> [tx EXCEPT !.status = "REJECTED"], balance |-> bal, executed |-> FALSE]
      ELSE [tx |-> [tx EXCEPT !.status = "PENDING"], balance |-> bal, executed |-> FALSE]

\* check_transaction_status on the in-memory row tx; returns the row as saved,
\* the balance, and whether the ledger effect was applied
check_transaction_status(tx, recs, cfg, bal) ==
  LET progress == get_approval_progress(recs, cfg, tx.type) IN
  IF progress.is_rejected
    THEN [tx |-> [tx EXCEPT !.status = "REJECTED"], balance |-> bal, executed |-> FALSE]
    ELSE IF progress.is_complete
      THEN LET approved == [tx EXCEPT !.status = "APPROVED"]
               r == execute(approved, bal)
           IN IF can_be_executed(approved) /\ r.ok
                THEN [tx |-> [r.tx EXCEPT !.status = "EXECUTED"],
                      balance |-> r.balance, executed |-> TRUE]
                ELSE [tx |-> approved, balance |-> bal, executed |-> FALSE]
      ELSE [tx |-> [tx EXCEPT !.status = "PENDING"], balance |-> bal, executed |-> FALSE]

\* ----------------------------------------------------------- roster
Range(s) == {s[i] : i \in 1..Len(s)}

RECURSIVE SortedSeq(_)
\* the members of a set of user ids as a list in id order
SortedSeq(S) ==
  IF S = {} THEN <<>>
  ELSE LET m == CHOOSE u \in S : \A v \in S : u <= v
       IN <<m>> \o SortedSeq(S \ {m})

\* a fallback query without .exclude(id__in=existing_approver_ids)
fallback_approvers_NoExclude(pool, approvers) == SortedSeq(pool)

\* the active approver-role users that are not yet in the list
fallback_approvers(pool, approvers) == SortedSeq(pool \ Range(approvers))

RECURSIVE PadApprovers(_, _, _)
\* append fallback users until the list holds required_count approvers or
\* the fallback users are exhausted
PadApprovers(approvers, fallback, required_count) ==
  IF fallback = <<>> \/ Len(approvers) >= required_count
    THEN approvers
    ELSE PadApprovers(Append(approvers, Head(fallback)), Tail(fallback),
                      required_count)

\* the list of approvers create_request_approvals creates a PENDING record
\* for, or ok = FALSE when it raises ValueError
create_request_approvals(pool, cfg, asg, type) ==
  LET required_count == get_required_approvals(cfg, type)
      assigned == SortedSeq({u \in DOMAIN asg[type] : asg[type][u] = "active"})
      approvers == IF Len(assigned) < required_count
                     THEN PadApprovers(assigned,
                                       fallback_approvers(pool, assigned),
                                       required_count)
                     ELSE assigned
      settings_count == IF type = "DEPOSIT" THEN DefaultDepositApprovals
                                            ELSE DefaultWithdrawalApprovals
  IN IF Len(approvers) >= required_count
       THEN [ok |-> TRUE, approvers |-> approvers]
       ELSE \* except Exception: settings-based fixed roles APPROVER_1..N
            IF \A i \in 1..settings_count : i \in pool
              THEN [ok |-> TRUE, approvers |-> [i \in 1..settings_count |-> i]]
              ELSE [ok |-> FALSE, approvers |-> <<>>]

NoRoster == [ok |-> FALSE, approvers |-> <<>>]

NoRecords == [a \in Approvers |-> "NONE"]

\* ----------------------------------------------------------- handlers
\* Each handler is an operator from the persisted rows to the response's
\* success flag and the rows it leaves behind; the actions below apply them.

Exists(t) == txn[t].status # "ABSENT"

\* what a refused request answers: the rows as they were
Refused(tx, recs, bal, error) ==
  [ok |-> FALSE, error |-> error, recs |-> recs, tx |-> tx,
   balance |-> bal, executed |-> FALSE]

\* a reject that also closes the records still PENDING
approve_or_reject_ClosesOthers(tx, recs, cfg, bal, a, action) ==
  IF recs[a] # "PENDING"
    THEN Refused(tx, recs, bal, "Failed")
    ELSE LET saved == [b \in DOMAIN recs |->
                         IF b = a
                           THEN (IF action = "approve" THEN "APPROVED"
                                                       ELSE "REJECTED")
                           ELSE IF action = "reject" /\ recs[b] = "PENDING"
                             THEN "REJECTED"
                             ELSE recs[b]]
             r == check_transaction_status(tx, saved, cfg, bal)
         IN [ok |-> TRUE, error |-> "none", recs |-> saved, tx |-> r.tx,
             balance |-> r.balance, executed |-> r.executed]

\* BaseApproval.approve / reject of approver a's record of a transaction
\* with row tx and records recs: the record must be PENDING; it is saved,
\* then the parent's status is recomputed
approve_or_reject(tx, recs, cfg, bal, a, action) ==
  IF recs[a] # "PENDING"
    THEN Refused(tx, recs, bal, "Failed")
    ELSE LET saved == [recs EXCEPT ![a] =
                         IF action = "approve" THEN "APPROVED" ELSE "REJECTED"]
             r == check_transaction_status(tx, saved, cfg, bal)
         IN [ok |-> TRUE, error |-> "none", recs |-> saved, tx |-> r.tx,
             balance |-> r.balance, executed |-> r.executed]

\* an update that creates the record when the user has none
update_GetOrCreate(tx, recs, cfg, bal, a, action) ==
  IF recs[a] \notin {"PENDING", "NONE"} \/ tx.status = "ABSENT"
    THEN Refused(tx, recs, bal, "NotFound")
    ELSE approve_or_reject(tx, [recs EXCEPT ![a] = "PENDING"], cfg, bal,
                           a, action)

\* an update that neither filters on PENDING records nor asks approve /
\* reject whether the record is still PENDING
update_AnyRecord(tx, recs, cfg, bal, a, action) ==
  LET saved == [recs EXCEPT ![a] =
                  IF action = "approve" THEN "APPROVED" ELSE "REJECTED"]
      r == check_transaction_status(tx, saved, cfg, bal)
  IN IF recs[a] = "NONE"
       THEN Refused(tx, recs, bal, "NotFound")
       ELSE [ok |-> TRUE, error |-> "none", recs |-> saved, tx |-> r.tx,
             balance |-> r.balance, executed |-> r.executed]

\* RequestApprovalView.update (dashboard process_approval_view does the same)
update(tx, recs, cfg, bal, a, action) ==
  IF recs[a] # "PENDING"
    THEN \* get_object: no PENDING record of this user, 404
         Refused(tx, recs, bal, "NotFound")
    ELSE IF /\ action = "approve"
            /\ tx.type = "WITHDRAWAL"
            /\ ~can_withdraw(bal, tx.amount)
      THEN \* Insufficient account balance, 400
           Refused(tx, recs, bal, "InsufficientBalance")
      ELSE approve_or_reject(tx, recs, cfg, bal, a, action)

\* the same on the stored rows of transaction t
decide_record(t, a, action) ==
  approve_or_reject(txn[t], approvals[t], config, balance, a, action)

decide(t, a, action) ==
  update(txn[t], approvals[t], config, balance, a, action)

\* cancel_transaction view: TransactionCancelSerializer.validate, then cancel
cancel_transaction(t, reason) ==
  IF ~can_be_cancelled(txn[t])
    THEN [ok |-> FALSE, tx |-> txn[t]]
    ELSE cancel(txn[t], IF reason = "<absent>" THEN "No reason provided" ELSE reason)

\* ----------------------------------------------------------- users
\* the users that send requests: two initiators, an approver, an admin
RequestUsers == {"initiator1", "initiator2", "approver1", "admin"}

NoUser == "none"

role(user) ==
  CASE user \in {"initiator1", "initiator2"} -> "INITIATOR"
    [] user = "approver1" -> "APPROVER_1"
    [] OTHER -> "ADMIN"

\* create_superuser sets is_staff and is_superuser
is_staff(user) == user = "admin"

\* a can_create_requests that also lets the approver roles create
can_create_requests_OrApprover(user) == role(user) # "ADMIN"

can_create_requests(user) == role(user) = "INITIATOR"

\* a can_user_cancel_transaction that lets every initiator cancel
can_user_cancel_transaction_AnyInitiator(user, creator) ==
  is_staff(user) \/ can_create_requests(user)

can_user_cancel_transaction(user, creator) ==
  IF is_staff(user) THEN TRUE
  ELSE IF can_create_requests(user) /\ creator = user THEN TRUE
  ELSE FALSE

\* cancel_transaction view as requested by user: 404, then the permission
\* check (403), then the serializer and Transaction.cancel
cancel_transaction_view(user, t, reason) ==
  IF ~Exists(t) THEN [ok |-> FALSE, tx |-> txn[t]]
  ELSE IF ~can_user_cancel_transaction(user, created_by[t])
    THEN [ok |-> FALSE, tx |-> txn[t]]
    ELSE cancel_transaction(t, reason)

\* ----------------------------------------------------------- reference
RefWidth == 6          \* references are formatted with {next_num:06d}

NoReference == [prefix |-> "", digits |-> <<>>]

Prefix(type) == IF type = "DEPOSIT" THEN "DEP" ELSE "WTH"

\* f"{n:06d}": the decimal digits of n, zero-padded to width
RECURSIVE format_digits(_, _)
format_digits(n, width) ==
  IF n = 0 /\ width <= 0 THEN <<>>
  ELSE Append(format_digits(n \div 10, width - 1), n % 10)

\* int(num_part)
RECURSIVE parse_int(_)
parse_int(digits) ==
  IF digits = <<>> THEN 0
  ELSE 10 * parse_int(SubSeq(digits, 1, Len(digits) - 1)) + digits[Len(digits)]

\* the numbers of the stored references that start with the prefix
RefNumbers(refs, prefix) ==
  {parse_int(refs[t].digits) : t \in {x \in DOMAIN refs : refs[x].prefix = prefix}}

SetMax(S) == CHOOSE m \in S : \A x \in S : x <= m

\* a generate_reference that numbers by the count of the stored references
generate_reference_CountPlusOne(refs, type) ==
  [prefix |-> Prefix(type),
   digits |-> format_digits(
                Cardinality({x \in DOMAIN refs : refs[x].prefix = Prefix(type)}) + 1,
                RefWidth)]

\* Transaction.generate_reference: the highest number of the type plus one
generate_reference(refs, type) ==
  LET max_num == SetMax(RefNumbers(refs, Prefix(type)) \cup {0})
      next_num == max_num + 1
  IN [prefix |-> Prefix(type), digits |-> format_digits(next_num, RefWidth)]

\* the references of rows inserted one after the other
RECURSIVE references_in_order(_, _)
references_in_order(tx, n) ==
  IF n = 0 THEN [t \in Txns |-> NoReference]
  ELSE LET before == references_in_order(tx, n - 1)
       IN [before EXCEPT ![n] = generate_reference(before, tx[n].type)]

\* =========================================================== actions
Init ==
  /\ balance \in 0..MaxInitBalance
  /\ txn = [t \in Txns |-> AbsentTxn]
  /\ approvals = [t \in Txns |-> NoRecords]
  /\ \/ \* a fresh database: no assignment, no configuration row
        /\ config = [ty \in Types |-> NoConfig]
        /\ assignment = [ty \in Types |-> [u \in Approvers |-> "none"]]
     \/ \* after ensure_approver_assignments and init_approval_config
        /\ assignment = [ty \in Types |-> [u \in Approvers |-> "active"]]
        /\ config = [ty \in Types |-> active_count(assignment, ty)]
  /\ applied = [t \in Txns |-> 0]
  /\ adminOps = 0
  /\ recomputes = [t \in Txns |-> 0]
  /\ stable = [t \in Txns |-> TRUE]
  /\ users = Approvers
  /\ roster = NoRoster
  /\ proc = <<>>
  /\ audit = "none"
  /\ call = NoCall
  /\ reference = [t \in Txns |-> NoReference]
  /\ created_by = [t \in Txns |-> NoUser]

\* the project settings leave ATOMIC_REQUESTS at Django's default: every
\* save of a view is committed on its own
AtomicRequests == FALSE

\* how an AuditLog.log_action call can end; "none": the view did not call it
AuditOutcomes == {"ok", "failed"}

\* a log_action whose failure takes the rows of the request back
log_action_RollsBack(outcome, before, after) ==
  IF outcome = "failed" THEN before ELSE after

\* AuditLog.log_action: one objects.create of a log row, nothing caught; the
\* rows the view saved before the call are the rows after it, unless the
\* request runs in one database transaction and the call raises
log_action(outcome, before, after) ==
  IF AtomicRequests /\ outcome = "failed" THEN before ELSE after

\* the rows a request handler can write
Rows(tx, recs, bal, executed) ==
  [tx |-> tx, recs |-> recs, balance |-> bal, executed |-> executed]

\* TransactionListView.create: validate, insert the row, create the records,
\* log; the row stays when create_request_approvals raises, and the view
\* answers 400 before it logs
CreateRequest(user, outcome) ==
  \E type \in Types, amount \in 0..MaxAmount :
    /\ can_create_requests(user)
    /\ \E t \in Txns : ~Exists(t)
    /\ amount > 0
    /\ parse_int(generate_reference(reference, type).digits) <= MaxRefNum
    /\ LET t == CHOOSE t \in Txns : ~Exists(t) /\ \A s \in Txns : ~Exists(s) => t <= s
           r == create_request_approvals(users, config, assignment, type)
           kept == log_action(outcome,
                     Rows(txn[t], approvals[t], balance, FALSE),
                     Rows([AbsentTxn EXCEPT !.type = type,
                                            !.amount = amount,
                                            !.status = "PENDING"],
                          [a \in Approvers |-> IF a \in Range(r.approvers)
                                                 THEN "PENDING" ELSE "NONE"],
                          balance, FALSE))
       IN /\ r.ok \/ outcome = "none"
          /\ roster' = r
          /\ txn' = [txn EXCEPT ![t] = kept.tx]
          /\ approvals' = [approvals EXCEPT ![t] = kept.recs]
          /\ stable' = [stable EXCEPT ![t] = TRUE]
          /\ reference' = [reference EXCEPT ![t] =
                IF kept.tx.status = "ABSENT" THEN @
                ELSE generate_reference(reference, type)]
          /\ created_by' = [created_by EXCEPT ![t] =
                IF kept.tx.status = "ABSENT" THEN @ ELSE user]
    /\ audit' = outcome
    /\ UNCHANGED <<balance, config, assignment, applied, adminOps, recomputes,
                   users, proc, call>>

CreateTransaction == CreateRequest("initiator1", "none")

\* RequestApprovalView.update: the decision, then log_action
DecideRequest(outcome) ==
  \E t \in Txns, a \in Approvers, action \in Actions :
    /\ Exists(t)
    /\ LET r == decide(t, a, action)
           kept == log_action(outcome,
                     Rows(txn[t], approvals[t], balance, FALSE),
                     Rows(r.tx, r.recs, r.balance, r.executed))
       IN /\ r.ok
          /\ approvals' = [approvals EXCEPT ![t] = kept.recs]
          /\ txn' = [txn EXCEPT ![t] = kept.tx]
          /\ balance' = kept.balance
          /\ applied' = [applied EXCEPT ![t] = IF kept.executed THEN @ + 1 ELSE @]
    /\ audit' = outcome
    /\ UNCHANGED <<config, assignment, adminOps, recomputes, stable, roster, aux>>

Decide == DecideRequest("none")

\* cancel_transaction view: the cancellation, then log_action
CancelRequest(user, outcome) ==
  \E t \in Txns, reason \in ReasonInputs :
    /\ Exists(t)
    /\ LET r == cancel_transaction_view(user, t, reason)
           kept == log_action(outcome,
                     Rows(txn[t], approvals[t], balance, FALSE),
                     Rows(r.tx, approvals[t], balance, FALSE))
       IN /\ r.ok
          /\ txn' = [txn EXCEPT ![t] = kept.tx]
    /\ audit' = outcome
    /\ UNCHANGED <<balance, approvals, config, assignment, applied, adminOps,
                   recomputes, stable, roster, aux>>

Cancel == CancelRequest("initiator1", "none")

RECURSIVE SumUpTo(_, _)
SumUpTo(f, n) == IF n = 0 THEN 0 ELSE f[n] + SumUpTo(f, n - 1)

TotalRecomputes == SumUpTo(recomputes, MaxTxn)

\* a direct status recomputation of transaction t
CheckTransactionStatus ==
  \E t \in Txns :
    /\ Exists(t)
    /\ TotalRecomputes < MaxRecomputes
    /\ recomputes' = [recomputes EXCEPT ![t] = @ + 1]
    /\ LET r == check_transaction_status(txn[t], approvals[t], config, balance)
       IN /\ txn' = [txn EXCEPT ![t] = r.tx]
          /\ balance' = r.balance
          /\ applied' = [applied EXCEPT ![t] = IF r.executed THEN @ + 1 ELSE @]
    /\ UNCHANGED <<approvals, config, assignment, adminOps, stable, roster,
                   audit, aux>>

\* ----------------------------------------------------------- admin panel
\* an admin step that rebuilds the records of the PENDING transactions
AdminStep_ResyncsRecords ==
  /\ adminOps < MaxAdminOps
  /\ adminOps' = adminOps + 1
  /\ stable' = [t \in Txns |->
        /\ stable[t]
        /\ Exists(t) => get_required_approvals(config', txn[t].type)
                          = get_required_approvals(config, txn[t].type)]
  /\ approvals' = [t \in Txns |->
        IF txn[t].status = "PENDING"
          THEN [a \in Approvers |->
                  IF assignment'[txn[t].type][a] = "active"
                    THEN (IF approvals[t][a] = "NONE" THEN "PENDING"
                                                      ELSE approvals[t][a])
                    ELSE "NONE"]
          ELSE approvals[t]]
  /\ UNCHANGED <<balance, txn, applied, recomputes, roster, audit, aux>>

AdminStep ==
  /\ adminOps < MaxAdminOps
  /\ adminOps' = adminOps + 1
  /\ stable' = [t \in Txns |->
        /\ stable[t]
        /\ Exists(t) => get_required_approvals(config', txn[t].type)
                          = get_required_approvals(config, txn[t].type)]
  /\ UNCHANGED <<balance, txn, approvals, applied, recomputes, roster, audit,
                 aux>>

\* a required count taken from all the assignment rows, active or not
SetCountFromAssignments_AllRows(asg, type) ==
  [config EXCEPT ![type] =
     Cardinality({u \in Approvers : asg[type][u] # "none"})]

\* assign / remove / toggle end by storing the active count as required count
SetCountFromAssignments(asg, type) ==
  [config EXCEPT ![type] = active_count(asg, type)]

\* assign_approver_view for one transaction type and user
assign_approver(type, u) ==
  /\ assignment' = [assignment EXCEPT ![type][u] = "active"]
  /\ config' = SetCountFromAssignments(assignment', type)
  /\ AdminStep

AssignApprover == \E type \in Types, u \in Approvers : assign_approver(type, u)

\* remove_approver_view for one assignment row
remove_approver(type, u) ==
  /\ assignment[type][u] # "none"
  /\ assignment' = [assignment EXCEPT ![type][u] = "none"]
  /\ config' = SetCountFromAssignments(assignment', type)
  /\ AdminStep

RemoveApprover == \E type \in Types, u \in Approvers : remove_approver(type, u)

\* toggle_approver_status_view for one assignment row
toggle_approver_status(type, u) ==
  /\ assignment[type][u] # "none"
  /\ assignment' = [assignment EXCEPT ![type][u] =
                      IF @ = "active" THEN "inactive" ELSE "active"]
  /\ config' = SetCountFromAssignments(assignment', type)
  /\ AdminStep

ToggleApproverStatus ==
  \E type \in Types, u \in Approvers : toggle_approver_status(type, u)

\* update_approval_config_view: values outside 1..5 (and 0) are refused
update_approval_config(cfg, type, required_approvals) ==
  IF \/ required_approvals = 0
     \/ required_approvals < MinRequiredApprovals
     \/ required_approvals > MaxRequiredApprovals
    THEN [ok |-> FALSE, config |-> cfg]
    ELSE [ok |-> TRUE, config |-> [cfg EXCEPT ![type] = required_approvals]]

ConfigInputs == 0..(NumApprovers + 1) \cup {MaxRequiredApprovals + 1}

UpdateApprovalConfig ==
  \E type \in Types, required_approvals \in ConfigInputs :
    /\ config' = update_approval_config(config, type, required_approvals).config
    /\ UNCHANGED assignment
    /\ AdminStep

Next ==
  \/ CreateTransaction
  \/ Decide
  \/ Cancel
  \/ CheckTransactionStatus
  \/ AssignApprover
  \/ RemoveApprover
  \/ ToggleApproverStatus
  \/ UpdateApprovalConfig

Spec == Init /\ [][Next]_vars

\* =========================================================== concurrency
\* The same handlers served concurrently.  No handler opens a database
\* transaction or locks a row, so every query and every save is a step of
\* its own, and each request works on the model instances it has loaded.
Procs == 1..NumProcs

NotLoaded == -1        \* the request has not loaded the Account row

Requests ==
  [kind : {"decide"}, t : Txns, a : Approvers, action : Actions] \cup
  [kind : {"cancel"}, t : Txns, a : {0}, action : {"cancel"}]

\* a request that has been received and has not yet queried anything; tx is
\* its Transaction instance, loaded the status the row had when it was loaded,
\* bal the balance of its Account instance
Received(req) ==
  [kind |-> req.kind, t |-> req.t, a |-> req.a, action |-> req.action,
   pc |-> "start", tx |-> AbsentTxn, loaded |-> "NONE", bal |-> NotLoaded,
   response |-> "none"]

Pending(type, amount) ==
  [AbsentTxn EXCEPT !.type = type, !.amount = amount, !.status = "PENDING"]

\* PENDING transactions as the sequential handlers leave them: every listed
\* approver has a record, fewer records are APPROVED than required, and an
\* approved withdrawal passed the balance check
ConcInit ==
  /\ balance \in 0..MaxInitBalance
  /\ assignment = [ty \in Types |-> [u \in Approvers |-> "active"]]
  /\ config \in [Types -> 1..NumApprovers]
  /\ txn \in [Txns -> {Pending(ty, am) : ty \in Types, am \in 1..MaxAmount}]
  /\ approvals \in [Txns -> [Approvers -> {"PENDING", "APPROVED"}]]
  /\ \A t \in Txns :
       /\ CountIn(approvals[t], "APPROVED")
            < get_required_approvals(config, txn[t].type)
       /\ (txn[t].type = "WITHDRAWAL" /\ CountIn(approvals[t], "APPROVED") > 0)
            => can_withdraw(balance, txn[t].amount)
  /\ applied = [t \in Txns |-> 0]
  /\ adminOps = 0
  /\ recomputes = [t \in Txns |-> 0]
  /\ stable = [t \in Txns |-> TRUE]
  /\ users = Approvers
  /\ roster = NoRoster
  /\ proc \in [Procs -> {Received(req) : req \in Requests}]
  /\ audit = "none"
  /\ call = NoCall
  /\ reference = references_in_order(txn, MaxTxn)
  /\ created_by = [t \in Txns |-> "initiator1"]

ConcFrame == UNCHANGED <<config, assignment, adminOps, recomputes, stable,
                         users, roster, audit, call, reference, created_by>>

Respond(p, response) ==
  proc' = [proc EXCEPT ![p].pc = "done", ![p].response = response]

\* RequestApprovalView.update up to the call of approve / reject: get_object,
\* approval.transaction, and for the approval of a withdrawal the account
ReadApproval(p) ==
  LET P == proc[p] IN
  /\ P.kind = "decide" /\ P.pc = "start"
  /\ IF approvals[P.t][P.a] # "PENDING"
       THEN Respond(p, "not_found")
       ELSE IF /\ P.action = "approve"
               /\ txn[P.t].type = "WITHDRAWAL"
               /\ ~can_withdraw(balance, txn[P.t].amount)
         THEN Respond(p, "insufficient_balance")
         ELSE proc' = [proc EXCEPT ![p].pc = "save_record",
                                   ![p].tx = txn[P.t],
                                   ![p].loaded = txn[P.t].status,
                                   ![p].bal =
                                      IF /\ P.action = "approve"
                                         /\ txn[P.t].type = "WITHDRAWAL"
                                        THEN balance ELSE NotLoaded]
  /\ UNCHANGED <<balance, txn, approvals, applied>>
  /\ ConcFrame

\* BaseApproval.approve / reject: self.save(update_fields=[status, ...])
SaveRecord(p) ==
  LET P == proc[p] IN
  /\ P.pc = "save_record"
  /\ approvals' = [approvals EXCEPT ![P.t][P.a] =
                     IF P.action = "approve" THEN "APPROVED" ELSE "REJECTED"]
  /\ proc' = [proc EXCEPT ![p].pc = "count"]
  /\ UNCHANGED <<balance, txn, applied>>
  /\ ConcFrame

\* check_transaction_status: get_approval_progress and the status it sets on
\* the request's own Transaction instance
CountRecords(p) ==
  LET P == proc[p]
      progress == get_approval_progress(approvals[P.t], config, P.tx.type)
  IN
  /\ P.pc = "count"
  /\ proc' = [proc EXCEPT
       ![p].tx.status = IF progress.is_rejected THEN "REJECTED"
                        ELSE IF progress.is_complete THEN "APPROVED"
                        ELSE "PENDING",
       ![p].pc = IF progress.is_rejected \/ ~progress.is_complete
                   THEN "save_status"
                   ELSE IF P.bal = NotLoaded THEN "read_account"
                                             ELSE "write_balance"]
  /\ UNCHANGED <<balance, txn, approvals, applied>>
  /\ ConcFrame

\* Transaction.execute: self.account is loaded on first use
ReadAccount(p) ==
  LET P == proc[p] IN
  /\ P.pc = "read_account"
  /\ proc' = [proc EXCEPT ![p].bal = balance, ![p].pc = "write_balance"]
  /\ UNCHANGED <<balance, txn, approvals, applied>>
  /\ ConcFrame

\* Transaction.execute: Account.deposit / withdraw on the loaded instance,
\* saving its balance
WriteBalance(p) ==
  LET P == proc[p]
      r == execute(P.tx, P.bal)
  IN
  /\ P.pc = "write_balance"
  /\ IF r.ok
       THEN /\ balance' = r.balance
            /\ applied' = [applied EXCEPT ![P.t] = @ + 1]
            /\ proc' = [proc EXCEPT ![p].tx = r.tx, ![p].bal = r.balance,
                                    ![p].pc = "save_executed"]
       ELSE /\ UNCHANGED <<balance, applied>>
            /\ proc' = [proc EXCEPT ![p].pc = "save_status"]
  /\ UNCHANGED <<txn, approvals>>
  /\ ConcFrame

\* Transaction.execute: self.save(update_fields=['status', 'executed_at'])
SaveExecuted(p) ==
  LET P == proc[p] IN
  /\ P.pc = "save_executed"
  /\ txn' = [txn EXCEPT ![P.t].status = P.tx.status,
                        ![P.t].executed_at = P.tx.executed_at]
  /\ proc' = [proc EXCEPT ![p].pc = "save_status"]
  /\ UNCHANGED <<balance, approvals, applied>>
  /\ ConcFrame

\* check_transaction_status: transaction.save(update_fields=['status'])
SaveStatus(p) ==
  LET P == proc[p] IN
  /\ P.pc = "save_status"
  /\ txn' = [txn EXCEPT ![P.t].status = P.tx.status]
  /\ Respond(p, "ok")
  /\ UNCHANGED <<balance, approvals, applied>>
  /\ ConcFrame

\* cancel_transaction view: Transaction.objects.get and the serializer's
\* can_be_cancelled validation of the loaded instance
ReadTransaction(p) ==
  LET P == proc[p] IN
  /\ P.kind = "cancel" /\ P.pc = "start"
  /\ IF can_be_cancelled(txn[P.t])
       THEN proc' = [proc EXCEPT ![p].tx = txn[P.t],
                                 ![p].loaded = txn[P.t].status,
                                 ![p].pc = "save_cancelled"]
       ELSE Respond(p, "cancellation_failed")
  /\ UNCHANGED <<balance, txn, approvals, applied>>
  /\ ConcFrame

\* Transaction.cancel on the loaded instance:
\* self.save(update_fields=['status', 'metadata'])
SaveCancelled(p) ==
  LET P == proc[p]
      r == cancel(P.tx, "No reason provided")
  IN
  /\ P.pc = "save_cancelled"
  /\ r.ok
  /\ txn' = [txn EXCEPT ![P.t].status = r.tx.status,
                        ![P.t].cancellation_reason = r.tx.cancellation_reason]
  /\ proc' = [proc EXCEPT ![p].tx = r.tx, ![p].pc = "done", ![p].response = "ok"]
  /\ UNCHANGED <<balance, approvals, applied>>
  /\ ConcFrame

ConcNext ==
  \E p \in Procs :
    \/ ReadApproval(p)
    \/ SaveRecord(p)
    \/ CountRecords(p)
    \/ ReadAccount(p)
    \/ WriteBalance(p)
    \/ SaveExecuted(p)
    \/ SaveStatus(p)
    \/ ReadTransaction(p)
    \/ SaveCancelled(p)

SpecConc == ConcInit /\ [][ConcNext]_vars

\* =========================================================== roster inputs
\* create_request_approvals over every population of approver users: user i
\* holds role APPROVER_i, any subset of the users is assigned, and the
\* configured count is absent, 0 (every assignment removed) or 1..5.
RoleUsers == 1..NumRoles

RosterInit ==
  /\ users \in SUBSET RoleUsers
  /\ \E assigned \in SUBSET users :
       assignment = [ty \in Types |->
                       [u \in RoleUsers |-> IF u \in assigned THEN "active"
                                                              ELSE "none"]]
  /\ config \in [Types -> {NoConfig} \cup 0..MaxRequiredApprovals]
  /\ balance = 0
  /\ txn = [t \in Txns |-> AbsentTxn]
  /\ approvals = [t \in Txns |-> [a \in RoleUsers |-> "NONE"]]
  /\ applied = [t \in Txns |-> 0]
  /\ adminOps = 0
  /\ recomputes = [t \in Txns |-> 0]
  /\ stable = [t \in Txns |-> TRUE]
  /\ roster = NoRoster
  /\ proc = <<>>
  /\ audit = "none"
  /\ call = NoCall
  /\ reference = [t \in Txns |-> NoReference]
  /\ created_by = [t \in Txns |-> NoUser]

\* TransactionListView.create of the first transaction
CreateFirst ==
  \E type \in Types :
    /\ ~Exists(1)
    /\ roster' = create_request_approvals(users, config, assignment, type)
    /\ txn' = [txn EXCEPT ![1] = Pending(type, 1)]
    /\ reference' = [reference EXCEPT ![1] = generate_reference(reference, type)]
    /\ created_by' = [created_by EXCEPT ![1] = "initiator1"]
    /\ approvals' = [approvals EXCEPT ![1] =
          [a \in RoleUsers |-> IF a \in Range(roster'.approvers)
                                 THEN "PENDING" ELSE "NONE"]]
    /\ UNCHANGED <<balance, config, assignment, applied, adminOps, recomputes,
                   stable, users, proc, audit, call>>

RosterNext == CreateFirst

SpecRoster == RosterInit /\ [][RosterNext]_vars

\* ------------------------------------------------ requests with audit log
\* the API views, whose AuditLog.log_action call returns or raises
AuditedCreate ==
  \E outcome \in AuditOutcomes : CreateRequest("initiator1", outcome)

AuditedDecide == \E outcome \in AuditOutcomes : DecideRequest(outcome)

AuditedCancel ==
  \E outcome \in AuditOutcomes : CancelRequest("initiator1", outcome)

AuditNext == AuditedCreate \/ AuditedDecide \/ AuditedCancel

SpecAudit == Init /\ [][AuditNext]_vars

\* ------------------------------------------------ the Account methods
MaxLedgerBalance == 15
MaxLedgerAmount == 4

\* an account row with any balance, and no transaction
AccountInit ==
  /\ balance \in 0..MaxLedgerBalance
  /\ txn = [t \in Txns |-> AbsentTxn]
  /\ approvals = [t \in Txns |-> NoRecords]
  /\ assignment = [ty \in Types |-> [u \in Approvers |-> "active"]]
  /\ config = [ty \in Types |-> active_count(assignment, ty)]
  /\ applied = [t \in Txns |-> 0]
  /\ adminOps = 0
  /\ recomputes = [t \in Txns |-> 0]
  /\ stable = [t \in Txns |-> TRUE]
  /\ users = Approvers
  /\ roster = NoRoster
  /\ proc = <<>>
  /\ audit = "none"
  /\ call = NoCall
  /\ reference = [t \in Txns |-> NoReference]
  /\ created_by = [t \in Txns |-> NoUser]

AccountFrame == UNCHANGED <<txn, approvals, config, assignment, applied,
                            adminOps, recomputes, stable, users, roster,
                            proc, audit, reference, created_by>>

\* Account.deposit(amount)
AccountDeposit ==
  \E amount \in 1..MaxLedgerAmount :
    /\ deposit(balance, amount) <= MaxLedgerBalance
    /\ balance' = deposit(balance, amount)
    /\ call' = [op |-> "deposit", amount |-> amount, before |-> balance,
                returned |-> TRUE]
    /\ AccountFrame

\* Account.withdraw(amount)
AccountWithdraw ==
  \E amount \in 1..MaxLedgerAmount :
    /\ balance' = withdraw(balance, amount).balance
    /\ call' = [op |-> "withdraw", amount |-> amount, before |-> balance,
                returned |-> withdraw(balance, amount).ok]
    /\ AccountFrame

AccountNext == AccountDeposit \/ AccountWithdraw

SpecAccount == AccountInit /\ [][AccountNext]_vars

\* ------------------------------------------------ creations and deletions
\* TransactionDetailView.destroy: a PENDING transaction is logged, then
\* deleted with its approval records
DestroyTransaction ==
  \E t \in Txns :
    /\ Exists(t)
    /\ txn[t].status = "PENDING"
    /\ txn' = [txn EXCEPT ![t] = AbsentTxn]
    /\ approvals' = [approvals EXCEPT ![t] = NoRecords]
    /\ reference' = [reference EXCEPT ![t] = NoReference]
    /\ created_by' = [created_by EXCEPT ![t] = NoUser]
    /\ applied' = [applied EXCEPT ![t] = 0]
    /\ recomputes' = [recomputes EXCEPT ![t] = 0]
    /\ stable' = [stable EXCEPT ![t] = TRUE]
    /\ audit' = "ok"
    /\ UNCHANGED <<balance, config, assignment, adminOps, roster, users, proc,
                   call>>

RefNext == CreateTransaction \/ Decide \/ Cancel \/ DestroyTransaction

SpecRef == Init /\ [][RefNext]_vars

\* ------------------------------------------------ requests of every user
\* create, decide and cancel requests sent by users of every role
AuthCreate == \E user \in RequestUsers : CreateRequest(user, "none")

AuthCancel == \E user \in RequestUsers : CancelRequest(user, "none")

AuthNext == AuthCreate \/ Decide \/ AuthCancel

SpecAuth == Init /\ [][AuthNext]_vars

\* ------------------------------------------------ admin panel alone
\* the assignment rows and the counts as earlier admin requests left them:
\* any rows, with the stored count of each type its active count, not zero
AdminInit ==
  /\ balance \in 0..MaxInitBalance
  /\ txn = [t \in Txns |-> AbsentTxn]
  /\ approvals = [t \in Txns |-> NoRecords]
  /\ assignment \in [Types -> [Approvers -> {"none", "active", "inactive"}]]
  /\ \A ty \in Types : active_count(assignment, ty) >= MinRequiredApprovals
  /\ config = [ty \in Types |-> active_count(assignment, ty)]
  /\ applied = [t \in Txns |-> 0]
  /\ adminOps = 0
  /\ recomputes = [t \in Txns |-> 0]
  /\ stable = [t \in Txns |-> TRUE]
  /\ users = Approvers
  /\ roster = NoRoster
  /\ proc = <<>>
  /\ audit = "none"
  /\ call = NoCall
  /\ reference = [t \in Txns |-> NoReference]
  /\ created_by = [t \in Txns |-> NoUser]

AdminNext ==
  \/ AssignApprover
  \/ RemoveApprover
  \/ ToggleApproverStatus
  \/ UpdateApprovalConfig

SpecAdmin == AdminInit /\ [][AdminNext]_vars

\* ------------------------------------------------ approvals of a deposit
\* any roster and any stored count from 1 to 5 (or none) for deposits
LiveInit ==
  /\ RosterInit
  /\ config["WITHDRAWAL"] = NoConfig
  /\ config["DEPOSIT"] # 0

\* TransactionListView.create of a DEPOSIT
CreateDeposit == CreateFirst /\ txn'[1].type = "DEPOSIT"

\* RequestApprovalView.update: approver a approves the deposit
ApproveFirst(a) ==
  LET r == decide(1, a, "approve") IN
  /\ Exists(1)
  /\ r.ok
  /\ approvals' = [approvals EXCEPT ![1] = r.recs]
  /\ txn' = [txn EXCEPT ![1] = r.tx]
  /\ balance' = r.balance
  /\ applied' = [applied EXCEPT ![1] = IF r.executed THEN @ + 1 ELSE @]
  /\ UNCHANGED <<config, assignment, adminOps, recomputes, stable, roster,
                 users, proc, audit, call, reference, created_by>>

LiveNext == CreateDeposit \/ \E a \in RoleUsers : ApproveFirst(a)

\* every approver that holds a PENDING record eventually approves
SpecLive ==
  /\ LiveInit
  /\ [][LiveNext]_vars
  /\ \A a \in RoleUsers : WF_vars(ApproveFirst(a))

\* =========================================================== properties
Progress(t) == get_approval_progress(approvals[t], config, txn[t].type)

ProgressAfter(t) == get_approval_progress(approvals'[t], config', txn'[t].type)

Terminal == {"EXECUTED", "CANCELLED"}

\* C1: at-most-once execution: whatever decide, cancel and recomputation
\* operations are applied, a transaction's amount is applied to its account
\* at most once.
C1_AtMostOnceExecution ==
  \A t \in Txns : applied[t] <= 1

\* C2: a transaction's status becomes EXECUTED only in a state where its
\* APPROVED records reach the required count, none of its records is
\* REJECTED, and its amount has been applied exactly once.
C2_ExecutedOnlyWhenCompleteAndAppliedOnce ==
  [][\A t \in Txns :
       (/\ txn'[t].status = "EXECUTED"
        /\ (txn[t].status # "EXECUTED" \/ applied'[t] # applied[t]))
       => /\ ProgressAfter(t).is_complete
          /\ ~ProgressAfter(t).is_rejected
          /\ applied'[t] = 1]_vars

\* C3: rejection is dominant and sticky: as soon as one approval record of a
\* transaction is REJECTED, and after every later decision, the transaction's
\* status is REJECTED, whatever the number of APPROVED or PENDING records.
C3_RejectionDominant ==
  \A t \in Txns :
    (\E a \in Approvers : approvals[t][a] = "REJECTED")
      => txn[t].status = "REJECTED"

\* C3 witness: right after decisions only, a REJECTED transaction with one
\* rejected record next to an approved one.
C3_Witness ==
  \E t \in Txns :
    /\ txn[t].status = "REJECTED"
    /\ Progress(t).rejected = 1
    /\ Progress(t).approved >= 1
    /\ adminOps = 0
    /\ recomputes[t] = 0

\* C4: a transaction whose status is REJECTED has had no balance effect.
C4_RejectedNeverApplied ==
  \A t \in Txns : txn[t].status = "REJECTED" => applied[t] = 0

\* C5: terminal states are immutable: once a transaction's status is EXECUTED
\* or CANCELLED no later operation changes it.
C5_TerminalImmutable ==
  [][\A t \in Txns :
       txn[t].status \in Terminal => txn'[t].status = txn[t].status]_vars

\* C6: the recomputation is idempotent on terminal transactions: calling
\* check_transaction_status on a transaction whose status is EXECUTED,
\* REJECTED or CANCELLED changes neither its status nor any balance.
C6_RecomputeIdempotentOnTerminal ==
  [][\A t \in Txns :
       (/\ recomputes'[t] # recomputes[t]
        /\ txn[t].status \in Terminal \cup {"REJECTED"})
       => /\ txn'[t].status = txn[t].status
          /\ balance' = balance]_vars

\* C7: on a DEPOSIT whose required count N has not changed since creation
\* and on which nobody rejects, an approval that leaves k < N records
\* APPROVED keeps the status PENDING and the balance unchanged; the N-th
\* approval makes the status EXECUTED and credits the amount exactly once.
C7_DepositExecutesOnNthApproval ==
  [][\A t \in Txns, a \in Approvers :
       (/\ Exists(t)
        /\ txn[t].type = "DEPOSIT"
        /\ stable[t] /\ stable'[t]
        /\ approvals[t][a] = "PENDING"
        /\ approvals'[t][a] = "APPROVED"
        /\ ~ProgressAfter(t).is_rejected)
       => LET k == ProgressAfter(t).approved
              N == ProgressAfter(t).required
          IN /\ k < N => /\ txn'[t].status = "PENDING"
                         /\ balance' = balance
                         /\ applied'[t] = 0
             /\ k = N => /\ txn'[t].status = "EXECUTED"
                         /\ balance' = balance + txn[t].amount
                         /\ applied'[t] = 1]_vars

\* C7 witness: a deposit executed by its N-th approval (N >= 2), credited once.
C7_Witness ==
  \E t \in Txns :
    /\ txn[t].type = "DEPOSIT"
    /\ txn[t].status = "EXECUTED"
    /\ stable[t]
    /\ Progress(t).required >= 2
    /\ Progress(t).approved = Progress(t).required
    /\ ~Progress(t).is_rejected
    /\ applied[t] = 1
    /\ recomputes[t] = 0
    /\ balance >= txn[t].amount

C9_NoDecisionAfterCancel ==
  [][\A t \in Txns :
       txn[t].status = "CANCELLED" => approvals'[t] = approvals[t]]_vars

\* C10: CANCELLED is entered only from PENDING, by a step that touches no
\* balance; cancel on a transaction whose status is APPROVED, REJECTED,
\* EXECUTED or CANCELLED is refused and leaves the row as it is.
C10_CancelOnlyFromPending ==
  /\ [](\A t \in Txns, reason \in ReasonInputs :
          txn[t].status \in {"APPROVED", "REJECTED", "EXECUTED", "CANCELLED"}
            => /\ ~cancel_transaction(t, reason).ok
               /\ cancel_transaction(t, reason).tx = txn[t])
  /\ [][\A t \in Txns :
          (txn'[t].status = "CANCELLED" /\ txn[t].status # "CANCELLED")
            => /\ txn[t].status = "PENDING"
               /\ balance' = balance
               /\ applied' = applied]_vars

\* C10 witness: a transaction cancelled from PENDING after an approval, while
\* another transaction sits in a status cancel refuses.
C10_Witness ==
  \E t, s \in Txns :
    /\ txn[t].status = "CANCELLED"
    /\ txn[t].cancellation_reason = "No reason provided"
    /\ Progress(t).approved >= 1
    /\ txn[s].status \in {"APPROVED", "REJECTED", "EXECUTED"}

\* ------------------------------------------------- concurrent requests
Done(p) == proc[p].pc = "done"

\* two requests of different approvers approving the same transaction
BothApprove(p, q) ==
  /\ p # q
  /\ proc[p].kind = "decide" /\ proc[q].kind = "decide"
  /\ proc[p].action = "approve" /\ proc[q].action = "approve"
  /\ proc[p].t = proc[q].t
  /\ proc[p].a # proc[q].a

\* C11: when two different approvers concurrently submit the two approvals
\* that complete the same transaction, whatever the interleaving of their
\* steps (save own record, count, set status, execute, save status), the
\* transaction's amount is applied exactly once.
C11_ConcurrentCompletionAppliedOnce ==
  \A p, q \in Procs :
    (/\ BothApprove(p, q)
     /\ proc[p].response = "ok" /\ proc[q].response = "ok"
     /\ Progress(proc[p].t).approved = Progress(proc[p].t).required)
    => applied[proc[p].t] = 1

\* C12: when a cancel request and a decision on the same transaction run
\* concurrently, each on the copy of the row it read while the transaction
\* was PENDING, no interleaving leaves the transaction CANCELLED with its
\* amount applied, nor EXECUTED after the cancel request has stored CANCELLED.
C12_NeverCancelledAndExecuted ==
  \A p, q \in Procs :
    (/\ proc[p].kind = "cancel" /\ proc[q].kind = "decide"
     /\ proc[p].t = proc[q].t
     /\ proc[p].loaded = "PENDING" /\ proc[q].loaded = "PENDING")
    => /\ ~(txn[proc[p].t].status = "CANCELLED" /\ applied[proc[p].t] > 0)
       /\ ~(proc[p].response = "ok" /\ txn[proc[p].t].status = "EXECUTED")

\* C13: no lost update: when the concurrent requests execute different
\* transactions of the account, every execution moves the persisted balance
\* by exactly its amount and nothing else moves it, so that the final
\* balance is the initial balance plus the net effect of the executions.
C13_NoLostUpdate ==
  [][(\A p, q \in Procs : p # q => proc[p].t # proc[q].t)
     => /\ \A t \in Txns :
             applied'[t] # applied[t]
             => balance' = IF txn[t].type = "DEPOSIT"
                             THEN balance + txn[t].amount
                             ELSE balance - txn[t].amount
        /\ (applied' = applied => balance' = balance)]_vars

\* C14: when the same approver submits two decisions for the same
\* transaction concurrently and both requests read the record while it is
\* PENDING, exactly one of them succeeds.
C14_DoubleSubmissionOneSucceeds ==
  \A p, q \in Procs :
    (/\ p # q
     /\ proc[p].kind = "decide" /\ proc[q].kind = "decide"
     /\ proc[p].t = proc[q].t /\ proc[p].a = proc[q].a
     /\ Done(p) /\ Done(q)
     /\ proc[p].response \notin {"not_found", "insufficient_balance"}
     /\ proc[q].response \notin {"not_found", "insufficient_balance"})
    => (proc[p].response = "ok") # (proc[q].response = "ok")

\* ------------------------------------------------- creation and decisions
\* the step inserts the row of transaction t
Created(t) == txn[t].status = "ABSENT" /\ txn'[t].status # "ABSENT"

\* C15: for every successfully created transaction, the number of approval
\* records created equals the required count the configuration resolves for
\* the transaction's type at creation time, and every record is PENDING.
C15_RecordsEqualRequiredAtCreation ==
  [][\A t \in Txns :
       (Created(t) /\ roster'.ok)
       => /\ ProgressAfter(t).total
               = get_required_approvals(config, txn'[t].type)
          /\ ProgressAfter(t).pending = ProgressAfter(t).total]_vars

\* C17: an approval record changes status at most once, from PENDING to
\* APPROVED or REJECTED, and never again: a later decide by an approver whose
\* record is already APPROVED or REJECTED fails and leaves the record, the
\* transaction status and the balance unchanged.
C17_RecordDecidedOnce ==
  /\ [](\A t \in Txns, a \in Approvers, action \in Actions :
          approvals[t][a] \in {"APPROVED", "REJECTED"}
          => LET r == decide(t, a, action)
             IN /\ ~r.ok
                /\ r.recs = approvals[t]
                /\ r.tx = txn[t]
                /\ r.balance = balance)
  /\ [][\A t \in Txns, a \in Approvers :
          /\ approvals[t][a] \in {"APPROVED", "REJECTED"}
               => approvals'[t][a] = approvals[t][a]
          /\ approvals[t][a] = "PENDING"
               => approvals'[t][a] \in {"PENDING", "APPROVED", "REJECTED"}]_vars

\* a decided record on a transaction that other approvers went on deciding
C17_Witness ==
  \E t \in Txns, a, b \in Approvers :
    /\ a # b
    /\ approvals[t][a] = "APPROVED"
    /\ approvals[t][b] = "REJECTED"
    /\ txn[t].status = "REJECTED"

\* the orders in which the approvers can submit their decisions
Orders == {o \in [1..NumApprovers -> Approvers] :
             \A i, j \in 1..NumApprovers : o[i] = o[j] => i = j}

RECURSIVE DecideInOrder(_, _, _, _, _, _, _)
\* the rows after the approvers o[i..] have submitted their action f[.] one
\* after the other; a refused decision leaves the rows as they are
DecideInOrder(tx, recs, cfg, bal, o, f, i) ==
  IF i > Len(o)
    THEN [tx |-> tx, recs |-> recs, balance |-> bal]
    ELSE LET r == update(tx, recs, cfg, bal, o[i], f[o[i]])
         IN DecideInOrder(r.tx, r.recs, cfg, r.balance, o, f, i + 1)

\* C18: approval order is irrelevant: for a transaction whose records are
\* all PENDING and one action fixed for each approver, submitting the
\* decisions in any order gives the same final status and the same balance.
C18_OrderIrrelevant ==
  \A t \in Txns :
    (/\ txn[t].status = "PENDING"
     /\ \A a \in Approvers : approvals[t][a] \in {"PENDING", "NONE"})
    => \A f \in [Approvers -> Actions], o1, o2 \in Orders :
         LET r1 == DecideInOrder(txn[t], approvals[t], config, balance, o1, f, 1)
             r2 == DecideInOrder(txn[t], approvals[t], config, balance, o2, f, 1)
         IN /\ r1.tx.status = r2.tx.status
            /\ r1.balance = r2.balance

\* C20: creation is atomic with respect to roster failure: when
\* create_request_approvals cannot satisfy the required count, no
\* transaction row (and no approval record) is persisted.
C20_NoRowWhenRosterFails ==
  [][\A t \in Txns : Created(t) => roster'.ok]_vars

\* ------------------------------------------------- roster
NoDuplicates(list) ==
  \A i, j \in 1..Len(list) : list[i] = list[j] => i = j

\* C16: there is at most one approval record per (transaction, approver):
\* the approver list built at creation (assigned approvers, then padding
\* users, or the role-based fallback list) never holds the same user twice,
\* and one record is stored for each of its users.
C16_OneRecordPerApprover ==
  /\ NoDuplicates(roster.approvers)
  /\ Exists(1) =>
       Cardinality({a \in RoleUsers : approvals[1][a] # "NONE"})
         = Len(roster.approvers)

\* a list of assigned approvers followed by padding users
C16_Witness ==
  /\ Exists(1)
  /\ roster.ok
  /\ \E i, j \in 1..Len(roster.approvers) :
       /\ i < j
       /\ assignment[txn[1].type][roster.approvers[i]] = "active"
       /\ assignment[txn[1].type][roster.approvers[j]] = "none"
       /\ roster.approvers[j] < roster.approvers[i]

\* C19: the roster resolver inside create_request_approvals either produces
\* a list at least as long as the required count configured for the type or
\* fails with ValueError; it never succeeds with fewer approvers.
C19_RosterAtLeastRequired ==
  (Exists(1) /\ roster.ok)
  => Len(roster.approvers) >= get_required_approvals(config, txn[1].type)

\* ------------------------------------------------- refused decisions
\* the answer r of a request left every row as it was
LeftUnchanged(r, t) ==
  /\ ~r.ok
  /\ r.recs = approvals[t]
  /\ r.tx = txn[t]
  /\ r.balance = balance
  /\ ~r.executed

\* C21: decision-time balance pre-check: an approve decision on a WITHDRAWAL
\* whose amount exceeds the current balance fails with an insufficient-balance
\* error and leaves the record PENDING and the transaction status and the
\* balance unchanged; a reject decision is never blocked by the balance.
C21_WithdrawalApprovalNeedsBalance ==
  \A t \in Txns, a \in Approvers :
    (/\ txn[t].type = "WITHDRAWAL"
     /\ approvals[t][a] = "PENDING")
    => /\ txn[t].amount > balance
            => /\ decide(t, a, "approve").error = "InsufficientBalance"
               /\ LeftUnchanged(decide(t, a, "approve"), t)
               /\ decide(t, a, "approve").recs[a] = "PENDING"
       /\ txn[t].amount <= balance => decide(t, a, "approve").ok
       /\ decide(t, a, "reject").ok
       /\ decide(t, a, "reject").recs[a] = "REJECTED"

\* a withdrawal larger than the balance with a record waiting for a decision
C21_Witness ==
  \E t \in Txns, a \in Approvers :
    /\ txn[t].type = "WITHDRAWAL"
    /\ txn[t].status = "PENDING"
    /\ approvals[t][a] = "PENDING"
    /\ txn[t].amount > balance

\* C22: a decide by a user who has no approval record for the transaction
\* (not on its roster, or no such transaction) fails with NotFound and
\* changes no record, no status and no balance; only users holding a record
\* of a transaction can influence it.
C22_NoRecordNotFound ==
  /\ [](\A t \in Txns, a \in Approvers, action \in Actions :
          approvals[t][a] = "NONE"
          => /\ decide(t, a, action).error = "NotFound"
             /\ LeftUnchanged(decide(t, a, action), t))
  /\ [][\A t \in Txns, a \in Approvers :
          (Exists(t) /\ approvals[t][a] = "NONE")
          => approvals'[t][a] = "NONE"]_vars

\* a PENDING transaction one approver holds a record of and another does not
C22_Witness ==
  \E t \in Txns, a, b \in Approvers :
    /\ txn[t].status = "PENDING"
    /\ approvals[t][a] = "NONE"
    /\ approvals[t][b] = "PENDING"

\* C26: admin changes to the assignments or to the configuration made after
\* a transaction was created leave its approval records, its status and the
\* account balance unchanged.
C26_AdminLeavesTransactionsAlone ==
  [][adminOps' # adminOps
     => /\ approvals' = approvals
        /\ txn' = txn
        /\ balance' = balance]_vars

\* an admin request changed the count required of a transaction that holds
\* a decided and an undecided record
C26_Witness ==
  \E t \in Txns, a, b \in Approvers :
    /\ adminOps > 0
    /\ ~stable[t]
    /\ txn[t].status = "PENDING"
    /\ approvals[t][a] = "APPROVED"
    /\ approvals[t][b] = "PENDING"

\* C27: get_approval_progress returns the exact numbers of the transaction's
\* records in each status, which sum to the total; is_complete holds iff
\* approved >= the required count of the current configuration (default 3
\* for DEPOSIT, 5 for WITHDRAWAL) and is_rejected iff rejected > 0.
C27_ProgressCounts ==
  \A t \in Txns :
    Exists(t) =>
      LET p == Progress(t)
          with(st) == Cardinality({a \in Approvers : approvals[t][a] = st})
          required == IF config[txn[t].type] # NoConfig
                        THEN config[txn[t].type]
                        ELSE IF txn[t].type = "DEPOSIT" THEN 3 ELSE 5
      IN /\ p.approved = with("APPROVED")
         /\ p.rejected = with("REJECTED")
         /\ p.pending = with("PENDING")
         /\ p.total = NumApprovers - with("NONE")
         /\ p.approved + p.rejected + p.pending = p.total
         /\ p.required = required
         /\ p.is_complete <=> (with("APPROVED") >= required)
         /\ p.is_rejected <=> (with("REJECTED") > 0)

\* records in two statuses, one approval short of the required count
C27_Witness ==
  \E t \in Txns, a, b \in Approvers :
    /\ approvals[t][a] = "APPROVED"
    /\ approvals[t][b] = "PENDING"
    /\ Progress(t).required = 2
    /\ ~Progress(t).is_complete

\* C28: Transaction.execute on a transaction whose status is not APPROVED
\* returns false and changes neither the transaction nor the balance.
C28_ExecuteNeedsApproved ==
  \A t \in Txns :
    (Exists(t) /\ txn[t].status # "APPROVED")
    => /\ ~execute(txn[t], balance).ok
       /\ execute(txn[t], balance).tx = txn[t]
       /\ execute(txn[t], balance).balance = balance

\* transactions in two of the statuses execute has to refuse
C28_Witness ==
  \E t, u \in Txns :
    /\ txn[t].status = "PENDING"
    /\ txn[u].status = "EXECUTED"

\* C29: a decide by approver a on transaction t changes, among all approval
\* records, only the record (t, a); after a rejection the other approvers'
\* PENDING records stay PENDING, and a rejection changes no balance.
C29_DecideChangesOneRecord ==
  [][\A t \in Txns :
       (Exists(t) /\ approvals'[t] # approvals[t])
       => \E a \in Approvers :
            /\ approvals[t][a] = "PENDING"
            /\ approvals'[t][a] \in {"APPROVED", "REJECTED"}
            /\ \A u \in Txns, b \in Approvers :
                 <<u, b>> # <<t, a>> => approvals'[u][b] = approvals[u][b]
            /\ approvals'[t][a] = "REJECTED" => balance' = balance]_vars

\* a rejection next to a record that is still PENDING
C29_Witness ==
  \E t \in Txns, a, b \in Approvers :
    /\ approvals[t][a] = "REJECTED"
    /\ approvals[t][b] = "PENDING"
    /\ txn[t].status = "REJECTED"

\* C24: the persisted account balance is never negative, whatever the
\* interleaving of the concurrent requests, withdrawals computed from a
\* balance read before another request wrote it included.
C24_BalanceNeverNegative ==
  /\ balance >= 0
  /\ \A p \in Procs : proc[p].bal # NotLoaded => proc[p].bal >= 0

\* two withdrawals have both been applied by concurrent requests and the
\* account is empty
C24_Witness ==
  /\ balance = 0
  /\ \A p \in Procs : Done(p) /\ proc[p].response = "ok"
  /\ \A t \in Txns : /\ txn[t].type = "WITHDRAWAL"
                     /\ txn[t].status = "EXECUTED"
                     /\ applied[t] = 1
  /\ \E p, q \in Procs : proc[p].t # proc[q].t

\* the status that the approval records of transaction t call for
RecordsCallFor(t) ==
  IF \E a \in Approvers : approvals[t][a] = "REJECTED" THEN {"REJECTED"}
  ELSE IF Progress(t).approved >= Progress(t).required
       THEN {"EXECUTED", "APPROVED"}
       ELSE {"PENDING"}

\* C30: once the concurrent decisions of different approvers on the same
\* transaction have all completed, the persisted status of the transaction
\* agrees with its approval records: REJECTED if a record is REJECTED,
\* otherwise EXECUTED or APPROVED if approved >= required, otherwise PENDING.
C30_StatusAgreesWithRecords ==
  \A p, q \in Procs :
    (/\ p # q
     /\ proc[p].kind = "decide" /\ proc[q].kind = "decide"
     /\ proc[p].t = proc[q].t /\ proc[p].a # proc[q].a
     /\ proc[p].response = "ok" /\ proc[q].response = "ok"
     /\ Done(p) /\ Done(q))
    => txn[proc[p].t].status \in RecordsCallFor(proc[p].t)

\* C23: Account.withdraw(amount) returns true and takes exactly amount off
\* the balance if and only if the balance before the call was at least
\* amount; otherwise it returns false and the balance is what it was.
\* Account.deposit(amount) adds exactly amount to the balance.
C23_AccountContract ==
  /\ call.op = "withdraw" =>
       /\ call.returned <=> call.before >= call.amount
       /\ call.returned => balance = call.before - call.amount
       /\ ~call.returned => balance = call.before
  /\ call.op = "deposit" => balance = call.before + call.amount

\* a withdrawal refused on an account that holds money
C23_Witness ==
  /\ call.op = "withdraw"
  /\ ~call.returned
  /\ call.before > 0
  /\ balance = call.before

\* the rows of transaction t, as a request handler writes them
Persisted(t, tx, recs, bal) ==
  /\ txn'[t] = tx
  /\ approvals'[t] = recs
  /\ balance' = bal

ActiveAssigned(asg, type) == {u \in Approvers : asg[type][u] = "active"}

\* C31: after each assign_approver, remove_approver or toggle_approver_status
\* on a transaction type, the stored required count of that type equals the
\* number of active approver assignments of that type.
C31_CountFollowsAssignments ==
  [][\A type \in Types :
       (\E u \in Approvers : \/ assign_approver(type, u)
                              \/ remove_approver(type, u)
                              \/ toggle_approver_status(type, u))
       => config'[type] = Cardinality(ActiveAssigned(assignment', type))
  ]_vars

\* an approver has been deactivated: one inactive and one active assignment
\* row for deposits, and a stored count of one
C31_Witness ==
  /\ adminOps > 0
  /\ \E u, v \in Approvers : /\ assignment["DEPOSIT"][u] = "inactive"
                              /\ assignment["DEPOSIT"][v] = "active"
  /\ config["DEPOSIT"] = 1

\* the reference numbers of the existing transactions of a type
NumbersOfType(type) ==
  {parse_int(reference[s].digits) : s \in {x \in Txns : Exists(x) /\ txn[x].type = type}}

\* C32: a transaction's reference is assigned once, at creation, and no
\* decision, execution or cancellation changes it; no two existing
\* transactions share a reference, whatever PENDING transactions were
\* deleted in between; and a new reference carries the prefix of its type
\* (DEP / WTH) and the highest number among the existing references of that
\* type plus one.
C32_ReferenceAssignedOnce ==
  /\ [](\A s, t \in Txns :
          /\ Exists(t) => reference[t] # NoReference
          /\ (s # t /\ Exists(s) /\ Exists(t)) => reference[s] # reference[t])
  /\ [][\A t \in Txns :
          /\ (Exists(t) /\ txn'[t].status # "ABSENT")
               => reference'[t] = reference[t]
          /\ (~Exists(t) /\ txn'[t].status # "ABSENT")
               => /\ reference'[t].prefix
                       = (IF txn'[t].type = "DEPOSIT" THEN "DEP" ELSE "WTH")
                  /\ Len(reference'[t].digits) = 6
                  /\ \A n \in NumbersOfType(txn'[t].type) :
                        parse_int(reference'[t].digits) > n
                  /\ parse_int(reference'[t].digits) - 1
                        \in NumbersOfType(txn'[t].type) \cup {0}
     ]_vars

\* after the deletion of the first of two deposits, a third deposit took
\* its place with number 3, and has since been executed
C32_Witness ==
  /\ reference[1] = [prefix |-> "DEP", digits |-> <<0, 0, 0, 0, 0, 3>>]
  /\ reference[2] = [prefix |-> "DEP", digits |-> <<0, 0, 0, 0, 0, 2>>]
  /\ txn[1].status = "EXECUTED"

\* C33: every transaction is created by a user with the INITIATOR role:
\* whichever user sends create requests, no transaction exists whose creator
\* is an approver or an admin, and where no transaction exists there is no
\* creator and no approval record.
C33_CreatedByInitiator ==
  \A t \in Txns :
    /\ Exists(t) => created_by[t] \in {"initiator1", "initiator2"}
    /\ ~Exists(t) => created_by[t] = NoUser /\ approvals[t] = NoRecords

\* the two initiators have each created a transaction
C33_Witness ==
  /\ created_by[1] = "initiator1"
  /\ created_by[2] = "initiator2"
  /\ Exists(1) /\ Exists(2)

\* C34: a cancel request by a user who is neither the initiator that
\* created the transaction nor an admin is refused and leaves the
\* transaction's status and cancellation reason as they are.
C34_CancelOnlyByCreatorOrAdmin ==
  \A t \in Txns, user \in RequestUsers, reason \in ReasonInputs :
    (Exists(t) /\ user # "admin" /\ user # created_by[t])
    => /\ ~cancel_transaction_view(user, t, reason).ok
       /\ cancel_transaction_view(user, t, reason).tx = txn[t]

\* a transaction of initiator2 has been cancelled while one of initiator1
\* is PENDING
C34_Witness ==
  /\ created_by[1] = "initiator1" /\ txn[1].status = "PENDING"
  /\ created_by[2] = "initiator2" /\ txn[2].status = "CANCELLED"

\* the signed amount of transaction t when its status is EXECUTED
ExecutedEffect(tx) ==
  IF tx.status # "EXECUTED" THEN 0
  ELSE IF tx.type = "DEPOSIT" THEN tx.amount ELSE 0 - tx.amount

\* the balance less the executed deposits plus the executed withdrawals
OpeningBalance(bal, txs) ==
  bal - SumUpTo([t \in Txns |-> ExecutedEffect(txs[t])], MaxTxn)

\* C35: ledger conservation: in every state reached by sequential create,
\* decide, cancel and admin-configuration requests, the balance equals the
\* initial balance plus the amounts of the EXECUTED deposits minus the
\* amounts of the EXECUTED withdrawals; that is, no step changes the
\* balance less the net amount of the EXECUTED transactions, as long as
\* no status recomputation other than those of the requests has run.
C35_LedgerConservation ==
  [][(\A t \in Txns : recomputes'[t] = 0)
       => OpeningBalance(balance', txn') = OpeningBalance(balance, txn)]_vars

\* C39: every transaction whose creation reported success has at least one
\* approval record, for every approval configuration and assignment roster:
\* create_request_approvals never succeeds with an empty approver list.
C39_SuccessHasRecords ==
  (Exists(1) /\ roster.ok)
  => /\ Len(roster.approvers) >= 1
     /\ \E a \in RoleUsers : approvals[1][a] = "PENDING"

\* C38: the stored required count of every transaction type stays within
\* 1..5 after any sequence of admin operations (assign, remove, toggle,
\* update configuration).
C38_RequiredCountInRange ==
  \A type \in Types : config[type] >= 1 /\ config[type] <= 5

\* C37: in sequential executions no DEPOSIT is ever stored with status
\* APPROVED: the step that reaches the threshold on a deposit credits the
\* account and stores EXECUTED; a step that stores APPROVED does so on a
\* WITHDRAWAL whose amount exceeds the balance, and leaves the balance alone.
C37_ApprovedOnlyForStalledWithdrawal ==
  /\ [](\A t \in Txns : txn[t].status = "APPROVED" => txn[t].type = "WITHDRAWAL")
  /\ [][\A t \in Txns :
          (txn[t].status # "APPROVED" /\ txn'[t].status = "APPROVED")
          => /\ txn[t].type = "WITHDRAWAL"
             /\ txn[t].amount > balance
             /\ balance' = balance
             /\ applied'[t] = applied[t]]_vars

\* a withdrawal is stored APPROVED next to an executed deposit
C37_Witness ==
  \E s, t \in Txns :
    /\ txn[s].type = "DEPOSIT" /\ txn[s].status = "EXECUTED"
    /\ txn[t].type = "WITHDRAWAL" /\ txn[t].status = "APPROVED"

\* C36: progress: a DEPOSIT created successfully, under a configuration
\* that is not changed afterwards and with nobody rejecting or cancelling,
\* eventually reaches status EXECUTED once every approver holding a record
\* for it has approved.
C36_DepositEventuallyExecuted ==
  (Exists(1) /\ roster.ok /\ txn[1].type = "DEPOSIT")
    ~> (txn[1].status = "EXECUTED")


====
